---- MODULE Spec2Model ----
(***************************************************************************)
(* Model of the tutorial generator (ruslanmv/ai-tutorial-generator):       *)
(* the agents' run methods, the orchestrator run_workflow and the web      *)
(* handler generate, as the Python source defines them.                    *)
(*                                                                         *)
(* A Python string is a sequence of tokens (each token stands for a run of *)
(* characters); a Document is a record [t, page_content, metadata] whose   *)
(* metadata is a function from keys to values; a call that raises is a     *)
(* result record whose outcome is "raised".                                *)
(***************************************************************************)
EXTENDS Integers, Sequences, FiniteSets, TLC

VARIABLES op, arg, res, temp_files_to_delete, tmp_files, uploads, inflight,
          run
    \* op  : the operation the caller performed last
    \* arg : the input of that call, with the behaviour of the collaborators
    \*       (conversion library, model backend, filesystem) during the call,
    \*       and the objects handed in as the call left them (blocks_after)
    \* res : what the call gave back: [outcome |-> "returned", value |-> ...]
    \*       or [outcome |-> "raised", exc |-> ...]
    \* temp_files_to_delete : the retriever's process-wide registry of
    \*       temporary files
    \* tmp_files : the temporary files that exist on disk
    \* uploads : the upload folder of the web application: for each path in
    \*       it, the request whose upload was saved there last
    \* inflight : the POST /generate requests being served concurrently:
    \*       for each, how far its handler has got, with its locals
    \* run : one POST /generate request followed through run_workflow stage
    \*       by stage, with what its caller does meanwhile

vars == <<op, arg, res, temp_files_to_delete, tmp_files, uploads, inflight,
          run>>

\* ------------------------------------------------------------------ bounds
MaxChunks == 2
MaxBlocks == 2
MaxTempFiles == 2
MaxReplyLen == 130
MaxTransient == 4

\* ------------------------------------------------------- Python data model
None == "<None>"

Returned(v) == [outcome |-> "returned", value |-> v]
Raised(e)   == [outcome |-> "raised", exc |-> e]

Document(pc, md) == [t |-> "Document", page_content |-> pc, metadata |-> md]
PyStr(s)         == [t |-> "str", v |-> s]

EmptyDict == [k \in {} |-> None]

\* {**a, **b}: the keys of both, b's value where both have the key
MergeDict(a, b) ==
    [k \in DOMAIN a \cup DOMAIN b |-> IF k \in DOMAIN b THEN b[k] ELSE a[k]]

\* d.get(k, default)
DictGet(d, k, default) == IF k \in DOMAIN d THEN d[k] ELSE default

\* str.lower() and str.upper() of one token
Lower(s) ==
    CASE s = "PDF"  -> "pdf"
      [] s = "HTML" -> "html"
      [] s = ".PNG" -> ".png"
      [] s = "IMAGE" -> "image"
      [] s = "HTTPS://" -> "https://"
      [] s = ".PDF" -> ".pdf"
      [] OTHER      -> s

Upper(s) ==
    CASE s = "pdf"  -> "PDF"
      [] s = "html" -> "HTML"
      [] s = ".png" -> ".PNG"
      [] s = "image" -> "IMAGE"
      [] OTHER      -> s

\* Sequences over S of length 0..n
SeqUpTo(S, n) == UNION {[1..k -> S] : k \in 0..n}

\* ------------------------------------------------------------ Python strings
\* tokens that consist of whitespace only ("<fence>" below stands for a run
\* of three backquotes)
Whitespace == {" ", "\n"}

RECURSIVE LStrip(_)
LStrip(s) == IF s # <<>> /\ Head(s) \in Whitespace THEN LStrip(Tail(s)) ELSE s

RECURSIVE RStrip(_)
RStrip(s) ==
    IF s # <<>> /\ s[Len(s)] \in Whitespace
    THEN RStrip(SubSeq(s, 1, Len(s) - 1))
    ELSE s

\* str.strip()
Strip(s) == RStrip(LStrip(s))

\* s.startswith(tok), s.endswith(tok), tok in s, for a token
StartsWith(s, tok) == s # <<>> /\ Head(s) = tok
EndsWith(s, tok)   == s # <<>> /\ s[Len(s)] = tok
Contains(s, tok)   == \E i \in 1..Len(s) : s[i] = tok

\* s.lower() of a string
LowerStr(s) == [i \in 1..Len(s) |-> Lower(s[i])]

\* s[:n]
Take(s, n) == SubSeq(s, 1, IF n < Len(s) THEN n ELSE Len(s))

\* --------------------------------------------------------------- the parser
\* src/src/agents/document_parser_agent.py

\* what a caller hands to DocumentParserAgent.run
RawMetadata ==
    { [format |-> "pdf", source |-> "doc.pdf"],
      [format |-> "HTML", source |-> "http://site/page"],
      EmptyDict }

RawContents == { <<"/", "tmp", "/", "doc", ".pdf">>, <<"<html>", "text">> }

ParserInputs ==
    {Document(pc, md) : pc \in RawContents, md \in RawMetadata}
        \cup {PyStr(<<"/", "tmp", "/", "doc", ".pdf">>)}

\* a chunk the chunker yields: its text and content attributes and its str()
\* form; <<>> stands for an attribute that is missing, None or "", which the
\* or chain of the parser treats alike
Chunks ==
    { [text |-> <<"para">>, content |-> <<>>, repr |-> <<"repr">>],
      [text |-> <<>>, content |-> <<"body">>, repr |-> <<"repr">>],
      [text |-> <<>>, content |-> <<>>, repr |-> <<"repr">>] }

\* the conversion library during one call of run
ConverterOutcomes == {"raises", "not_conversion_result", "no_document", "ok"}

ParserEnvs ==
    [docling_available : BOOLEAN,
     convert : ConverterOutcomes,
     chunker_raises : BOOLEAN,
     chunks : SeqUpTo(Chunks, MaxChunks)]

\* Python truthiness of an attribute value: None and "" are falsy
Truthy(x) == x # <<>>

\* getattr(chunk,'text',None) or getattr(chunk,'content',None) or str(chunk)
ChunkText(chunk) ==
    IF Truthy(chunk.text) THEN chunk.text
    ELSE IF Truthy(chunk.content) THEN chunk.content
    ELSE chunk.repr

\* a variant of the pass-through block that carries no error marker
FallbackBlockUnmarked(raw_doc, message) ==
    Document(raw_doc.page_content,
             MergeDict(raw_doc.metadata, [chunk_id |-> 0]))

\* the single pass-through block of the three degraded paths
FallbackBlock(raw_doc, message) ==
    Document(raw_doc.page_content,
             MergeDict(raw_doc.metadata,
                       [chunk_id |-> 0, chunk_error |-> message]))

\* a variant of the wrapping that numbers the chunks from 1
ChunkBlockOneBased(raw_doc, fmt, source, chunks, idx) ==
    Document(ChunkText(chunks[idx + 1]),
             MergeDict(raw_doc.metadata,
                       [source |-> source, format |-> fmt,
                        chunk_id |-> idx + 1]))

\* the block wrapped around chunk idx (0-based) of the chunk list
ChunkBlock(raw_doc, fmt, source, chunks, idx) ==
    Document(ChunkText(chunks[idx + 1]),
             MergeDict(raw_doc.metadata,
                       [source |-> source, format |-> fmt, chunk_id |-> idx]))

\* the body of the try block: the exception it raises, or "" when none
ParserTryError(env) ==
    CASE env.convert = "raises" -> "convert failed"
      [] env.convert = "not_conversion_result" -> "Expected ConversionResult"
      [] env.convert = "no_document" ->
            "ConversionResult did not contain a document."
      [] env.chunker_raises -> "chunk failed"
      [] OTHER -> ""

\* DocumentParserAgent.run(raw_doc)
ParserRun(raw_doc, env) ==
    IF raw_doc.t # "Document"
    THEN Raised("AttributeError")       \* raw_doc.metadata, before the try
    ELSE
      LET fmt    == Lower(DictGet(raw_doc.metadata, "format", "unknown"))
          source == DictGet(raw_doc.metadata, "source", None)
      IN  IF ~env.docling_available
          THEN Returned(<<FallbackBlock(raw_doc, "Docling unavailable")>>)
          ELSE IF ParserTryError(env) # ""
          THEN Returned(<<FallbackBlock(raw_doc, ParserTryError(env))>>)
          ELSE IF env.chunks = <<>>
          THEN Returned(<<FallbackBlock(raw_doc, "Chunking produced no chunks")>>)
          ELSE Returned([i \in 1..Len(env.chunks) |->
                           ChunkBlock(raw_doc, fmt, source, env.chunks, i - 1)])

\* -------------------------------------------------------------- the refiner
\* src/src/agents/reviewer_refiner_agent.py

DraftContents ==
    { <<"# Title", "\n", "body">>, <<"body", "\n">>, <<" ">>, <<>> }

DraftMetadata == { [role |-> "tutorial"], EmptyDict }

\* what a caller hands to ReviewerRefinerAgent.run: a Document, None, or a
\* plain string
RefinerInputs ==
    {Document(pc, md) : pc \in DraftContents, md \in DraftMetadata}
        \cup {[t |-> "None"], PyStr(<<"# Title", "\n", "body">>), PyStr(<<>>)}

\* the text the real model backend answers with
RefineTexts ==
    { <<>>, <<" ", "\n">>, <<"\n", "# Title", "\n", "better", " ">>,
      <<"body", "\n">> }

\* the model backend during one call: the mock (use_mocks), or a real model
\* whose create raises, whose get_text_content gives a non-string, or which
\* answers with a text
RefinerEnvs ==
    [use_mocks : {TRUE}, llm : {"mock"}, text : {<<>>}]
        \cup [use_mocks : {FALSE}, llm : {"raises", "nonstring"}, text : {<<>>}]
        \cup [use_mocks : {FALSE}, llm : {"text"}, text : RefineTexts]

\* f"--- Draft Tutorial Start ---\n{draft_content}\n--- Draft Tutorial End ---"
RefinerUserMessage(draft_content) ==
    <<"--- Draft Tutorial Start ---", "\n">> \o draft_content
        \o <<"\n", "--- Draft Tutorial End ---">>

\* _MockChatModel.create: echoes the user message back
RefinerMockCreate(user_msg) == user_msg

\* chat_model.create(...).get_text_content() and the isinstance check: the
\* exception raised inside the try block, or "" when none
RefinerTryError(env) ==
    CASE env.llm = "raises"    -> "backend error"
      [] env.llm = "nonstring" -> "Expected string from get_text_content()"
      [] OTHER                 -> ""

\* the text the backend answered with
RefinerReply(draft_content, env) ==
    IF env.use_mocks
    THEN RefinerMockCreate(RefinerUserMessage(draft_content))
    ELSE env.text

\* bool(draft_doc): None and "" are falsy
RefinerInputFalsy(draft_doc) ==
    \/ draft_doc.t = "None"
    \/ draft_doc.t = "str" /\ draft_doc.v = <<>>

\* a variant of the except branch that marks the document refined
RefinerErrorDocMarkedRefined(draft_doc, e) ==
    Document(<<"# Refinement Error", "\n", "\n",
               "An error occurred during refinement:", e>>,
             MergeDict(draft_doc.metadata,
                       [role |-> "tutorial_refined", status |-> "refined"]))

\* the document of the except Exception branch
RefinerErrorDoc(draft_doc, e) ==
    Document(<<"# Refinement Error", "\n", "\n",
               "An error occurred during refinement:", e>>,
             MergeDict(draft_doc.metadata,
                       [role |-> "refinement_error", status |-> "failed",
                        error_message |-> e]))

\* a variant of the empty-reply branch that returns the (empty) reply
RefinerEmptyDocReturnsReply(draft_doc) ==
    Document(<<>>,
             MergeDict(draft_doc.metadata,
                       [status |-> "refinement_empty_output",
                        role |-> "tutorial_unrefined"]))

\* the document returned when the reply is empty after strip()
RefinerEmptyDoc(draft_doc) ==
    Document(draft_doc.page_content,
             MergeDict(draft_doc.metadata,
                       [status |-> "refinement_empty_output",
                        role |-> "tutorial_unrefined"]))

\* a variant of the success case that signs the text it returns
RefinerSuccessDocSigned(draft_doc, refined_md, env) ==
    Document(refined_md \o <<"\n", "_Refined automatically._">>,
             MergeDict(draft_doc.metadata,
                       [role |-> "tutorial_refined",
                        status |-> IF env.use_mocks THEN "refined_mock"
                                   ELSE "refined"]))

\* the document of the success case
RefinerSuccessDoc(draft_doc, refined_md, env) ==
    Document(refined_md,
             MergeDict(draft_doc.metadata,
                       [role |-> "tutorial_refined",
                        status |-> IF env.use_mocks THEN "refined_mock"
                                   ELSE "refined"]))

\* a variant of run whose answer to an empty input carries a role only
RefinerRunEmptyInputUntagged(draft_doc, env) ==
    IF RefinerInputFalsy(draft_doc)
       \/ (draft_doc.t = "Document" /\ draft_doc.page_content = <<>>)
    THEN Returned(Document(
             <<"# Refinement Error", "\n", "\n", "Input document was empty.">>,
             [role |-> "refinement_error"]))
    ELSE IF draft_doc.t # "Document"
    THEN Raised("AttributeError")
    ELSE IF RefinerTryError(env) # ""
    THEN Returned(RefinerErrorDoc(draft_doc, RefinerTryError(env)))
    ELSE LET refined_md == Strip(RefinerReply(draft_doc.page_content, env))
         IN  IF refined_md = <<>>
             THEN Returned(RefinerEmptyDoc(draft_doc))
             ELSE Returned(RefinerSuccessDoc(draft_doc, refined_md, env))

\* ReviewerRefinerAgent.run(draft_doc)
RefinerRun(draft_doc, env) ==
    IF RefinerInputFalsy(draft_doc)
       \/ (draft_doc.t = "Document" /\ draft_doc.page_content = <<>>)
    THEN Returned(Document(
             <<"# Refinement Error", "\n", "\n", "Input document was empty.">>,
             [role |-> "refinement_error", status |-> "failed",
              error_message |-> "Input document empty"]))
    ELSE IF draft_doc.t # "Document"
    THEN Raised("AttributeError")   \* draft_doc.page_content, before the try
    ELSE IF RefinerTryError(env) # ""
    THEN Returned(RefinerErrorDoc(draft_doc, RefinerTryError(env)))
    ELSE LET refined_md == Strip(RefinerReply(draft_doc.page_content, env))
         IN  IF refined_md = <<>>
             THEN Returned(RefinerEmptyDoc(draft_doc))
             ELSE Returned(RefinerSuccessDoc(draft_doc, refined_md, env))

\* a deterministic backend for two calls in a row: the mock of the module,
\* or a stub that answers by a table from the draft content it is asked
\* about: with a text, by raising ("<raises>"), or with that content itself
\* ("<echo>"); about any other content it answers with that content
StubContents ==
    { <<"# Title", "\n", "body">>, <<"body", "\n">>, <<" ">> }

StubAnswers == RefineTexts \cup { <<"<raises>">>, <<"<echo>">> }

StubBackends ==
    {[kind |-> "mock", table |-> EmptyDict]}
        \cup [kind : {"stub"}, table : [StubContents -> StubAnswers]]

\* what the backend answers when the refiner sends it a draft content
BackendOutput(backend, draft_content) ==
    IF backend.kind = "mock"
    THEN RefinerMockCreate(RefinerUserMessage(draft_content))
    ELSE IF draft_content \notin DOMAIN backend.table THEN draft_content
    ELSE IF backend.table[draft_content] = <<"<echo>">> THEN draft_content
    ELSE backend.table[draft_content]

\* the backend as one call of run meets it
BackendEnv(backend, draft_content) ==
    IF backend.kind = "mock"
    THEN [use_mocks |-> TRUE, llm |-> "mock", text |-> <<>>]
    ELSE IF BackendOutput(backend, draft_content) = <<"<raises>">>
    THEN [use_mocks |-> FALSE, llm |-> "raises", text |-> <<>>]
    ELSE [use_mocks |-> FALSE, llm |-> "text",
          text |-> BackendOutput(backend, draft_content)]

\* run(draft_doc) with the given backend
RefineWith(backend, draft_doc) ==
    RefinerRun(draft_doc,
               BackendEnv(backend,
                          IF draft_doc.t = "Document"
                          THEN draft_doc.page_content ELSE <<>>))

\* ------------------------------------------------------------- the analyzer
\* src/src/agents/content_analyzer_agent.py

SummarySnippetLen == 100
OriginalSnippetLen == 200

ImageExtensions == {".png", ".jpg", ".jpeg", ".gif", ".bmp", ".webp"}

\* the blocks a caller hands to ContentAnalyzerAgent.run, before chunk_id is
\* set: a text block, a block whose metadata declares an image, an image
\* path, and a bare file name with an image extension
AnalyzerBlockKinds ==
    { Document(<<"Step", " ", "one">>, EmptyDict),
      Document(<<"fig">>, [docling_type |-> "image"]),
      Document(<<"/", "img", ".PNG">>, EmptyDict),
      Document(<<"img", ".png">>, EmptyDict) }

\* block lists as the parser numbers them: chunk_id is the 0-based position
NumberBlocks(kinds) ==
    [i \in 1..Len(kinds) |->
        Document(kinds[i].page_content,
                 MergeDict(kinds[i].metadata, [chunk_id |-> i - 1]))]

AnalyzerInputs == {NumberBlocks(k) : k \in SeqUpTo(AnalyzerBlockKinds, MaxBlocks)}

\* JSON objects the text model may answer with, as one token each
JsonObjects ==
    [ x \in {"{role:step,summary:S}", "{role:paragraph,summary:P}",
             "{summary:S}"} |->
        CASE x = "{role:step,summary:S}" ->
                [role |-> "step", summary |-> <<"S", " ">>]
          [] x = "{role:paragraph,summary:P}" ->
                [role |-> "paragraph", summary |-> <<"P">>]
          [] OTHER -> [summary |-> <<"S">>] ]

\* what the text model does on one block: create raises, or it answers a text
TextReplies ==
    { <<"<raises>">>,
      <<"{role:step,summary:S}">>,
      <<"<fence>", "json", "\n", "{role:step,summary:S}", "\n", "<fence>">>,
      <<"not json">>,
      <<"[]">> }

\* the backends during one call: the vision model (absent, answering, or
\* raising) and the text model's reply to each block
AnalyzerEnvs(n) ==
    [vision_model : {"none", "ok", "raises"}, replies : [1..n -> TextReplies]]

\* single blocks of further kinds: a path with backslashes, a name that
\* starts with http, a block whose metadata declares another type, and a
\* path to a file that is no image
AnalyzerCaseKinds ==
    AnalyzerBlockKinds
        \cup { Document(<<"C:", "\\", "img", ".jpg">>, EmptyDict),
               Document(<<"http", "pic", ".gif">>, EmptyDict),
               Document(<<"fig">>, [docling_type |-> "picture"]),
               Document(<<"/", "notes", ".txt">>, EmptyDict) }

\* the two blocks of a mixed batch: a text block and an image path
AnalyzerPairKinds ==
    { Document(<<"Step", " ", "one">>, EmptyDict),
      Document(<<"/", "img", ".PNG">>, EmptyDict) }

AnalyzerCaseInputs ==
    {NumberBlocks(k) : k \in [1..1 -> AnalyzerCaseKinds]
                               \cup [1..2 -> AnalyzerPairKinds]}

\* a reply of MaxReplyLen characters that is no JSON
LongReply == [i \in 1..MaxReplyLen |-> "x"]

\* further replies of the text model: objects with another role and without
\* role, a fence without language tag, fences on one line (without and with
\* the tag), text before the object, text before a fenced object, and a long
\* text
TextReplyCases ==
    TextReplies
        \cup { <<"{role:paragraph,summary:P}">>,
               <<"{summary:S}">>,
               <<"<fence>", "\n", "{role:step,summary:S}", "\n", "<fence>">>,
               <<"<fence>", "{role:step,summary:S}", "<fence>">>,
               <<"<fence>", "json", " ", "{role:step,summary:S}", "<fence>">>,
               <<"Here is the JSON:", " ", "{role:step,summary:S}">>,
               <<"Sure:", "\n", "<fence>", "json", "\n",
                 "{role:step,summary:S}", "\n", "<fence>">>,
               LongReply }

AnalyzerCaseEnvs(n) ==
    [vision_model : {"none", "ok", "raises"}, replies : [1..n -> TextReplyCases]]

\* a variant of the decision that goes by the extension alone
IsImageByExtension(block) ==
    LET docling_type == Upper(DictGet(block.metadata, "docling_type", ""))
        page_content == block.page_content
    IN  \/ docling_type = "IMAGE"
        \/ \E ext \in ImageExtensions : EndsWith(LowerStr(page_content), ext)

\* the image-or-text decision of one block
IsImage(block) ==
    LET docling_type == Upper(DictGet(block.metadata, "docling_type", ""))
        page_content == block.page_content
    IN  \/ docling_type = "IMAGE"
        \/ /\ \E ext \in ImageExtensions : EndsWith(LowerStr(page_content), ext)
           /\ \/ Contains(page_content, "/")
              \/ Contains(page_content, "\\")
              \/ StartsWith(page_content, "http")

\* resp.strip of the backquote: drop the fence tokens at both ends
RECURSIVE StripFence(_)
StripFence(s) ==
    IF s # <<>> /\ Head(s) = "<fence>" THEN StripFence(Tail(s))
    ELSE IF s # <<>> /\ s[Len(s)] = "<fence>"
    THEN StripFence(SubSeq(s, 1, Len(s) - 1))
    ELSE s

\* s.split("\n", 1)[-1]: what follows the first newline, or s when none
RECURSIVE AfterFirstNewline(_)
AfterFirstNewline(s) ==
    IF ~Contains(s, "\n") THEN s
    ELSE IF Head(s) = "\n" THEN Tail(s)
    ELSE AfterFirstNewline(Tail(s))

\* the code-fence handling of a reply (both branches of the language-tag test
\* run the same statement)
Unfence(resp) ==
    IF StartsWith(resp, "<fence>")
    THEN Strip(AfterFirstNewline(StripFence(resp)))
    ELSE resp

\* json.loads(resp): "object", "other" (valid JSON that is no object) or
\* "error" (JSONDecodeError)
JsonKind(resp) ==
    IF Len(resp) = 1 /\ resp[1] \in DOMAIN JsonObjects THEN "object"
    ELSE IF resp = <<"[]">> THEN "other"
    ELSE "error"

\* a variant of the image branch that tags an undescribed image as text
AnalyzeImageUntagged(block, vision_model) ==
    CASE vision_model = "none" ->
            [role |-> "other",
             summary |-> <<"Image content: ">> \o block.page_content]
      [] vision_model = "ok" ->
            [role |-> "image_description", summary |-> <<"a figure">>]
      [] OTHER ->
            [role |-> "image_error",
             summary |-> <<"[Image description failed: ", "vision error",
                           "] - Path: ">> \o block.page_content]

\* role and summary of an image block
AnalyzeImage(block, vision_model) ==
    CASE vision_model = "none" ->
            [role |-> "image",
             summary |-> <<"Image content: ">> \o block.page_content]
      [] vision_model = "ok" ->
            [role |-> "image_description", summary |-> <<"a figure">>]
      [] OTHER ->
            [role |-> "image_error",
             summary |-> <<"[Image description failed: ", "vision error",
                           "] - Path: ">> \o block.page_content]

\* a variant of the text branch that cuts a reply that is no JSON short
AnalyzeTextTruncatesRaw(block, reply) ==
    LET raw_text == block.page_content
        default  == Take(raw_text, SummarySnippetLen) \o <<"...">>
        resp     == Unfence(Strip(reply))
    IN  IF reply = <<"<raises>">>
        THEN [role |-> "analysis_error_llm", summary |-> default]
        ELSE CASE JsonKind(resp) = "object" ->
                    [role |-> DictGet(JsonObjects[resp[1]], "role", "other"),
                     summary |-> Strip(DictGet(JsonObjects[resp[1]],
                                               "summary", <<>>))]
               [] JsonKind(resp) = "other" ->
                    [role |-> "analysis_error_processing", summary |-> resp]
               [] OTHER ->
                    [role |-> "analysis_error_json",
                     summary |-> Take(resp, SummarySnippetLen)]

\* a variant of the text branch that leaves a reply that is no JSON untagged
AnalyzeTextUntaggedJsonError(block, reply) ==
    LET raw_text == block.page_content
        default  == Take(raw_text, SummarySnippetLen) \o <<"...">>
        resp     == Unfence(Strip(reply))
    IN  IF reply = <<"<raises>">>
        THEN [role |-> "analysis_error_llm", summary |-> default]
        ELSE CASE JsonKind(resp) = "object" ->
                    [role |-> DictGet(JsonObjects[resp[1]], "role", "other"),
                     summary |-> Strip(DictGet(JsonObjects[resp[1]],
                                               "summary", <<>>))]
               [] OTHER ->
                    [role |-> "other", summary |-> resp]

\* role and summary of a text block
AnalyzeText(block, reply) ==
    LET raw_text == block.page_content
        default  == Take(raw_text, SummarySnippetLen) \o <<"...">>
        resp     == Unfence(Strip(reply))
    IN  IF reply = <<"<raises>">>
        THEN [role |-> "analysis_error_llm", summary |-> default]
        ELSE CASE JsonKind(resp) = "object" ->
                    [role |-> DictGet(JsonObjects[resp[1]], "role", "other"),
                     summary |-> Strip(DictGet(JsonObjects[resp[1]],
                                               "summary", <<>>))]
               [] JsonKind(resp) = "other" ->
                    [role |-> "analysis_error_processing", summary |-> resp]
               [] OTHER ->
                    [role |-> "analysis_error_json", summary |-> resp]

\* a variant of the loop's first statement that takes the block's own
\* dictionary instead of a copy of it
AnalyzerMetaAliased(block) == [shared |-> TRUE, dict |-> block.metadata]

\* meta = dict(block.metadata): the dictionary the loop body writes to, and
\* whether it is the block's own dictionary
AnalyzerMeta(block) == [shared |-> FALSE, dict |-> block.metadata]

\* the analyzed document appended for one block
AnalyzeBlock(block, reply, vision_model) ==
    LET r == IF IsImage(block) THEN AnalyzeImage(block, vision_model)
             ELSE AnalyzeText(block, reply)
    IN  Document(r.summary,
                 MergeDict(AnalyzerMeta(block).dict,
                           [role |-> r.role,
                            original_content_snippet |->
                                Take(block.page_content, OriginalSnippetLen)]))

\* the input block as the loop body leaves it: the writes of lines 253 and
\* 255 go to meta, and reach the block only if meta is the block's own
\* dictionary; page_content is never assigned
BlockAfterAnalysis(block, reply, vision_model) ==
    IF AnalyzerMeta(block).shared
    THEN Document(block.page_content,
                  AnalyzeBlock(block, reply, vision_model).metadata)
    ELSE block

\* the caller's list of blocks after run: run appends to a list of its own
AnalyzerBlocksAfter(blocks, env) ==
    [i \in 1..Len(blocks) |->
        BlockAfterAnalysis(blocks[i], env.replies[i], env.vision_model)]

\* a variant of run that skips a block whose text-model call raised
AnalyzerRunSkipsFailed(blocks, env) ==
    Returned(SelectSeq(
        [i \in 1..Len(blocks) |->
            AnalyzeBlock(blocks[i], env.replies[i], env.vision_model)],
        LAMBDA d : d.metadata.role # "analysis_error_llm"))

\* ContentAnalyzerAgent.run(blocks)
AnalyzerRun(blocks, env) ==
    Returned([i \in 1..Len(blocks) |->
                 AnalyzeBlock(blocks[i], env.replies[i], env.vision_model)])

\* ---------------------------------------------------- the structure builder
\* src/src/agents/tutorial_structure_agent.py

StructurerInputs ==
    SeqUpTo({ Document(<<"S">>, [role |-> "step", chunk_id |-> 0]),
              Document(<<"not json">>,
                       [role |-> "analysis_error_json", chunk_id |-> 0]) },
            MaxBlocks)

\* what the model does on the outline prompt: create raises, or it answers
StructureReplies ==
    { <<"<raises>">>,
      <<"[]">>,
      <<"[{title:Introduction},{title:Conclusion}]">>,
      <<"{title:Introduction}">>,
      <<"[1]">>,
      <<"<fence>", "json", "\n", "[{title:Introduction}]", "\n", "<fence>">>,
      <<"not json">> }

\* the Python list json.loads gives for the JSON arrays above
JsonArrays ==
    [ x \in {"[]", "[{title:Introduction},{title:Conclusion}]", "[1]"} |->
        CASE x = "[]" -> <<>>
          [] x = "[1]" -> <<[title |-> "<int 1>"]>>
          [] OTHER -> <<[title |-> "Introduction"], [title |-> "Conclusion"]>> ]

\* json.loads(content) followed by assert isinstance(outline, list); any
\* exception gives the empty outline
ParseOutline(content) ==
    IF Len(content) = 1 /\ content[1] \in DOMAIN JsonArrays
    THEN JsonArrays[content[1]]
    ELSE <<>>

\* a variant of run without the check of the insight list
StructurerRunAlwaysAsks(insights, reply) ==
    IF reply = <<"<raises>">>
    THEN Raised("backend error")
    ELSE Returned(ParseOutline(reply))

\* TutorialStructureAgent.run(insights)
StructurerRun(insights, reply) ==
    IF insights = <<>> THEN Returned(<<>>)
    ELSE IF reply = <<"<raises>">>
    THEN Raised("backend error")        \* model.create, outside the try
    ELSE Returned(ParseOutline(reply))

\* -------------------------------------------------------------- the drafter
\* src/src/agents/markdown_generation_agent.py

PyList(xs) == [t |-> "list", v |-> xs]

\* what a caller hands to MarkdownGenerationAgent.run as the outline: a
\* Document, None, or the list the structure builder returns
DrafterOutlines ==
    { Document(<<"# Outline", "\n", "- Introduction">>, EmptyDict),
      Document(<<" ", "\n">>, EmptyDict),
      [t |-> "None"],
      PyList(<<>>),
      PyList(<<[title |-> "Introduction"]>>) }

DraftReplies ==
    { <<"<raises>">>, <<"<nonstring>">>, <<>>,
      <<"\n", "# Tutorial", "\n", "text", "\n">> }

\* bool(outline): None and the empty list are falsy
DrafterOutlineFalsy(outline) ==
    \/ outline.t = "None"
    \/ outline.t = "list" /\ outline.v = <<>>

\* a variant of run whose backend call is not wrapped by try/except
DrafterRunUncaught(outline, insights, reply) ==
    IF DrafterOutlineFalsy(outline)
       \/ (outline.t = "Document" /\ Strip(outline.page_content) = <<>>)
    THEN Returned(Document(
             <<"# Error", "\n", "\n",
               "No outline provided for tutorial generation.">>,
             [role |-> "tutorial_error"]))
    ELSE IF outline.t # "Document"
    THEN Raised("AttributeError")
    ELSE IF reply = <<"<raises>">>
    THEN Raised("backend error")
    ELSE IF reply = <<"<nonstring>">>
    THEN Raised("AttributeError")
    ELSE Returned(Document(Strip(reply), [role |-> "tutorial"]))

\* MarkdownGenerationAgent.run(outline, insights)
DrafterRun(outline, insights, reply) ==
    IF DrafterOutlineFalsy(outline)
       \/ (outline.t = "Document" /\ Strip(outline.page_content) = <<>>)
    THEN Returned(Document(
             <<"# Error", "\n", "\n",
               "No outline provided for tutorial generation.">>,
             [role |-> "tutorial_error"]))
    ELSE IF outline.t # "Document"
    THEN Raised("AttributeError")   \* outline.page_content, before the try
    ELSE IF reply = <<"<raises>">>
    THEN Returned(Document(
             <<"# Generation Error", "\n", "\n", "An error occurred: ",
               "backend error">>,
             [role |-> "tutorial_error"]))
    ELSE IF reply = <<"<nonstring>">>
    THEN Returned(Document(         \* .strip() of a non-string raises
             <<"# Generation Error", "\n", "\n", "An error occurred: ",
               "AttributeError">>,
             [role |-> "tutorial_error"]))
    ELSE Returned(Document(Strip(reply), [role |-> "tutorial"]))

\* --------------------------------------------------------- the orchestrator
\* src/src/workflows.py

Stages == <<"parse", "analyze", "structure", "draft", "refine">>

\* the keyword parameters each agent's __init__ declares
AgentInitParams ==
    [parse     |-> {"output_dir"},
     analyze   |-> {"use_mocks", "model_name"},
     structure |-> {"model"},
     draft     |-> {"use_mocks", "model_name"},
     refine    |-> {"use_mocks", "model_name"}]

\* the keyword arguments run_workflow instantiates each agent with
WfInitKwargs ==
    [parse     |-> {},
     analyze   |-> {"model"},
     structure |-> {"model"},
     draft     |-> {"model"},
     refine    |-> {"model"}]

\* the number of arguments each agent's run requires (besides self), and
\* whether run is a coroutine function
AgentRunParams ==
    [parse |-> 1, analyze |-> 1, structure |-> 1, draft |-> 2, refine |-> 1]

AgentRunIsAsync ==
    [parse |-> FALSE, analyze |-> FALSE, structure |-> TRUE,
     draft |-> FALSE, refine |-> FALSE]

\* the number of arguments run_workflow calls each run with, and whether it
\* awaits the value the call gives back (the parser runs in a thread)
WfRunArgs ==
    [parse |-> 1, analyze |-> 1, structure |-> 1, draft |-> 1, refine |-> 1]

WfRunAwaited ==
    [parse |-> FALSE, analyze |-> TRUE, structure |-> TRUE,
     draft |-> TRUE, refine |-> TRUE]

\* the files on disk when a caller invokes run_workflow
ExistingFiles == { <<"/", "tmp", "/", "doc", ".pdf">> }

\* the sources a caller hands to run_workflow
WfSources ==
    ExistingFiles \cup { <<"not-a-url-or-file">>, <<"http://", "site/page">> }

\* the collaborators during one pipeline run
WfEnvs ==
    [docling_available : BOOLEAN,
     convert : {"raises", "ok"},
     chunks : {c \in SeqUpTo(Chunks, MaxChunks) :
                  \A i \in 1..Len(c) : c[i].text # <<>>},
     analyze_reply : {<<"{role:step,summary:S}">>, <<"not json">>},
     structure_reply : {<<"[{title:Introduction},{title:Conclusion}]">>,
                        <<"not json">>},
     draft_reply : {<<"# Tutorial", "\n", "text">>, <<"<raises>">>},
     refine_llm : {"text", "raises"},
     refine_text : {<<>>, <<"# Title", "\n", "better">>}]

WfParserEnv(env) ==
    [docling_available |-> env.docling_available, convert |-> env.convert,
     chunker_raises |-> FALSE, chunks |-> env.chunks]

WfAnalyzerEnv(env, n) ==
    [vision_model |-> "none", replies |-> [i \in 1..n |-> env.analyze_reply]]

WfRefinerEnv(env) ==
    [use_mocks |-> FALSE, llm |-> env.refine_llm, text |-> env.refine_text]

WfReturned(v, trace) == [outcome |-> "returned", value |-> v, trace |-> trace]
WfRaised(e, trace)   == [outcome |-> "raised", exc |-> e, trace |-> trace]

\* a variant of the source check that lets every path through
IsFileUnchecked(path, files) == TRUE

\* Path(input_file).expanduser().resolve().is_file(), files being the paths
\* that name a file on disk
IsFile(path, files) == path \in files

\* the agents whose instantiation raises TypeError (unexpected keyword)
BadCtors ==
    {i \in 1..Len(Stages) :
        ~(WfInitKwargs[Stages[i]] \subseteq AgentInitParams[Stages[i]])}

\* one stage call of run_workflow, given what the agent's run does (r):
\* entered tells whether run's body was executed, r is what the awaited
\* call expression gives
StageCall(stage, r) ==
    IF WfRunArgs[stage] # AgentRunParams[stage]
    THEN [entered |-> FALSE, r |-> Raised("TypeError")]     \* missing argument
    ELSE IF r.outcome = "raised"
    THEN [entered |-> TRUE, r |-> r]
    ELSE IF WfRunAwaited[stage] /\ ~AgentRunIsAsync[stage]
    THEN [entered |-> TRUE, r |-> Raised("TypeError")]      \* await of a non-awaitable
    ELSE [entered |-> TRUE, r |-> r]

Entered(trace, stage, c) == IF c.entered THEN Append(trace, stage) ELSE trace

\* run_workflow(input_file)
RunWorkflow(path, files, env) ==
    IF ~IsFile(path, files) THEN WfRaised("FileNotFoundError", <<>>)
    ELSE IF BadCtors # {} THEN WfRaised("TypeError", <<>>)
    ELSE
    LET c1 == StageCall("parse", ParserRun(PyStr(path), WfParserEnv(env)))
        t1 == Entered(<<>>, "parse", c1)
    IN  IF c1.r.outcome = "raised" THEN WfRaised(c1.r.exc, t1) ELSE
    LET blocks == c1.r.value
        c2 == StageCall("analyze",
                        AnalyzerRun(blocks, WfAnalyzerEnv(env, Len(blocks))))
        t2 == Entered(t1, "analyze", c2)
    IN  IF c2.r.outcome = "raised" THEN WfRaised(c2.r.exc, t2) ELSE
    LET insights == c2.r.value
        c3 == StageCall("structure",
                        StructurerRun(insights, env.structure_reply))
        t3 == Entered(t2, "structure", c3)
    IN  IF c3.r.outcome = "raised" THEN WfRaised(c3.r.exc, t3) ELSE
    LET outline == c3.r.value
        c4 == StageCall("draft",
                        DrafterRun(PyList(outline), insights, env.draft_reply))
        t4 == Entered(t3, "draft", c4)
    IN  IF c4.r.outcome = "raised" THEN WfRaised(c4.r.exc, t4) ELSE
    LET markdown == c4.r.value
        c5 == StageCall("refine", RefinerRun(markdown, WfRefinerEnv(env)))
        t5 == Entered(t4, "refine", c5)
    IN  IF c5.r.outcome = "raised" THEN WfRaised(c5.r.exc, t5) ELSE
        WfReturned([markdown |-> c5.r.value, outline |-> outline,
                    insights |-> insights, blocks |-> blocks, src |-> path],
                   t5)

\* ---------------------------------------------------------- the web handler
\* src/app.py

ALLOWED_EXTENSIONS == {"pdf", "html", "htm"}

\* the requests POST /generate receives: no source, an uploaded file (by its
\* filename), or a JSON body naming a source
GenerateRequests ==
    { [kind |-> "none", name |-> <<>>],
      [kind |-> "file", name |-> <<"doc", ".", "PDF">>],
      [kind |-> "file", name |-> <<"notes", ".", "txt">>],
      [kind |-> "file", name |-> <<"README">>],
      [kind |-> "file", name |-> <<>>],
      [kind |-> "json", name |-> <<"http://", "site/page">>],
      [kind |-> "json", name |-> <<"not-a-url-or-file">>],
      [kind |-> "json", name |-> <<" ", "/", "tmp", "/", "doc", ".pdf">>] }

\* "." in name and name.rsplit(".", 1)[1].lower() in ALLOWED_EXTENSIONS
AllowedFile(name) ==
    /\ Contains(name, ".")
    /\ Len(name) >= 2 /\ name[Len(name) - 1] = "."
    /\ Lower(name[Len(name)]) \in ALLOWED_EXTENSIONS

HttpResponse(status, body) == [status |-> status, body |-> body]

\* a variant of the except clause that names one exception type
GenerateCatchesFileNotFound(exc) == exc = "FileNotFoundError"

\* the except clause of generate: the exceptions it catches
GenerateCatches(exc) == TRUE        \* except Exception

\* Path(app.config["UPLOAD_FOLDER"]) / secure_filename(src_file.filename)
UploadPath(name) == <<"/", "tmp", "/", "tg_uploads", "/">> \o name

\* the source generate hands to run_workflow
GenerateSource(req) ==
    IF req.kind = "file" THEN UploadPath(req.name) ELSE Strip(req.name)

\* generate saves the upload of the request (lines 115-121)
GenerateSaves(req) ==
    req.kind = "file" /\ req.name # <<>> /\ AllowedFile(req.name)

\* the files on disk when generate calls run_workflow: the upload folder
\* with the upload of this request saved in it
GenerateFiles(req) ==
    IF req.kind = "file"
    THEN ExistingFiles \cup DOMAIN uploads \cup {UploadPath(req.name)}
    ELSE ExistingFiles \cup DOMAIN uploads

\* generate(): the response, or the exception that leaves the handler
Generate(req, env) ==
    IF req.kind = "none"
    THEN Returned(HttpResponse("400", [error |-> "No source provided"]))
    ELSE IF req.kind = "file" /\ (req.name = <<>> \/ ~AllowedFile(req.name))
    THEN Returned(HttpResponse("400", [error |-> "Unsupported or empty file"]))
    ELSE
    LET w == RunWorkflow(GenerateSource(req), GenerateFiles(req), env)
    IN  IF w.outcome = "raised"
        THEN IF GenerateCatches(w.exc)
             THEN Returned(HttpResponse("500", [error |-> w.exc]))
             ELSE Raised(w.exc)
        ELSE Returned(HttpResponse("200", [outline |-> w.value.outline,
                                           markdown |-> w.value.markdown]))

\* ------------------------------------------------------------ the retriever
\* src/src/agents/source_retriever_agent.py

\* the names tempfile.NamedTemporaryFile may give a new file
TempNames ==
    {<<"/", "tmp", "/", "tmp", ToString(i), ".pdf">> : i \in 1..MaxTempFiles}

\* the local files on disk while the retriever runs
RetrieverLocalFiles ==
    ExistingFiles \cup { <<"/", "tmp", "/", "page", ".html">>,
                         <<"/", "tmp", "/", "SCAN", ".PDF">> }

\* the sources a caller hands to SourceRetrieverAgent.run
RetrieverSources ==
    RetrieverLocalFiles
        \cup { <<"not-a-url-or-file">>, <<"http://", "site/page">>,
               <<"HTTPS://", "site/doc.pdf">> }

\* source.lower().startswith(("http://", "https://"))
IsUrl(source) == Lower(Head(source)) \in {"http://", "https://"}

\* Retry(total=3, ...): the number of retries the session's adapter allows
RetryTotal == 3

\* the network and the filesystem during one call of run.
\* transient: how many GET attempts, from the first on, are answered with a
\*   status of status_forcelist (429, 500, 502, 503, 504) before the server
\*   gives the answer http;
\* http: the request fails for good (RequestException: an error status
\*   outside status_forcelist included), the answer is a PDF by Content-Type,
\*   a PDF by its first bytes, a text, or a text whose declared encoding
\*   Python does not know;
\* tmp_io: creating the temporary file fails, writing or closing it fails,
\*   or both succeed;
\* read: the local file is read as UTF-8, or is not UTF-8 and is a PDF by
\*   its first bytes, or is not UTF-8 and is other binary data, or is not
\*   UTF-8 and the second read fails, or cannot be opened
RetrieverEnvs(source) ==
    IF IsUrl(source)
    THEN [transient : 0..MaxTransient,
          http : {"request_error", "pdf_ctype", "pdf_magic", "html",
                  "unknown_encoding"},
          tmp_io : {"ok", "create_fails", "write_fails"},
          read : {"ok"}]
    ELSE [transient : {0},
          http : {"html"},
          tmp_io : {"ok"},
          read : {"ok", "binary_pdf", "binary_other", "binary_unreadable",
                  "unreadable"}]

\* what one call of run gives its caller, with the local created_temp_file
\* and whether that path was added to the registry
RetReturned(content, fmt, source, created, registered) ==
    [outcome |-> "returned",
     value |-> Document(content, [format |-> fmt, source |-> source]),
     created_temp_file |-> created, registered |-> registered]

RetRaised(e, created) ==
    [outcome |-> "raised", exc |-> e,
     created_temp_file |-> created, registered |-> FALSE]

\* the two branches that persist a fetched PDF: NamedTemporaryFile, write,
\* close, then temp_files_to_delete.add; an exception of the three file
\* operations is re-raised by the except Exception clause
SavePdfToTempFile(source, tf_name, env) ==
    CASE env.tmp_io = "create_fails" -> RetRaised("OSError", None)
      [] env.tmp_io = "write_fails"  -> RetRaised("OSError", tf_name)
      [] OTHER -> RetReturned(tf_name, "pdf", source, tf_name, TRUE)

\* a variant of the retry loop that counts total as attempts, not retries
SessionGetCountsAttempts(transient, total, made) ==
    IF transient >= total
    THEN [attempts |-> total, exhausted |-> TRUE]
    ELSE [attempts |-> transient + 1, exhausted |-> FALSE]

\* self.session.get(source, ...) through the adapter's Retry: made attempts
\* have been answered with a transient status so far and total retries are
\* left; an attempt answered with such a status is retried if a retry is
\* left, and otherwise the request fails (RetryError, a RequestException)
RECURSIVE SessionGet(_, _, _)
SessionGet(transient, total, made) ==
    IF made + 1 > transient
    THEN [attempts |-> made + 1, exhausted |-> FALSE]
    ELSE IF total - 1 < 0
    THEN [attempts |-> made + 1, exhausted |-> TRUE]
    ELSE SessionGet(transient, total - 1, made + 1)

\* the GET attempts one call of run sends
GetAttempts(source, env) ==
    IF IsUrl(source) THEN SessionGet(env.transient, RetryTotal, 0).attempts
    ELSE 0

\* the URL branch of run
RetrieveUrl(source, tf_name, env) ==
    CASE SessionGet(env.transient, RetryTotal, 0).exhausted ->
            RetRaised("ValueError", None)
      [] env.http = "request_error" -> RetRaised("ValueError", None)
      [] env.http \in {"pdf_ctype", "pdf_magic"} ->
            SavePdfToTempFile(source, tf_name, env)
      [] env.http = "unknown_encoding" -> RetRaised("LookupError", None)
      [] OTHER ->
            RetReturned(<<"<html>", "text">>, "html", source, None, FALSE)

\* the local-file branch of run
RetrieveLocal(source, env) ==
    IF EndsWith(LowerStr(source), ".pdf")
    THEN RetReturned(source, "pdf", source, None, FALSE)
    ELSE CASE env.read = "ok" ->
                RetReturned(<<"<html>", "text">>, "html", source, None, FALSE)
           [] env.read = "binary_pdf" ->
                RetReturned(source, "pdf", source, None, FALSE)
           [] env.read = "binary_other" ->
                RetReturned(<<"bytes">>, "unknown", source, None, FALSE)
           [] OTHER -> RetRaised("ValueError", None)

\* a variant of run that re-raises a failed request as it is
RetrieverRunReraisesAll(source, tf_name, env, files) ==
    IF IsUrl(source)
    THEN IF env.http = "request_error"
            \/ SessionGet(env.transient, RetryTotal, 0).exhausted
         THEN RetRaised("RequestException", None)
         ELSE RetrieveUrl(source, tf_name, env)
    ELSE IF source \in files THEN RetrieveLocal(source, env)
    ELSE RetRaised("ValueError", None)

\* SourceRetrieverAgent.run(source); tf_name is the name NamedTemporaryFile
\* gives if it is called, files are the local files on disk
RetrieverRun(source, tf_name, env, files) ==
    IF IsUrl(source) THEN RetrieveUrl(source, tf_name, env)
    ELSE IF source \in files THEN RetrieveLocal(source, env)
    ELSE RetRaised("ValueError", None)

\* what one pass of cleanup_temp_files over the registry leaves behind:
\* os.remove(f) succeeds when the file exists, and f then leaves the
\* registry; it raises OSError when the file is gone, which the loop catches,
\* and f stays registered
RECURSIVE CleanupLoop(_, _, _)
CleanupLoop(todo, files, registry) ==
    IF todo = {}
    THEN [outcome |-> "returned", files |-> files, registry |-> registry]
    ELSE LET f_path == CHOOSE f \in todo : TRUE
         IN  IF f_path \in files
             THEN CleanupLoop(todo \ {f_path}, files \ {f_path},
                              registry \ {f_path})
             ELSE CleanupLoop(todo \ {f_path}, files, registry)

\* a variant of cleanup_temp_files without the except clauses
CleanupTempFilesUncaught(files, registry) ==
    IF registry \subseteq files
    THEN CleanupLoop(registry, files, registry)
    ELSE [outcome |-> "raised", files |-> files, registry |-> registry]

\* cleanup_temp_files(): iterates over a copy of the registry
CleanupTempFiles(files, registry) == CleanupLoop(registry, files, registry)

\* the ids of the requests that may be in flight at once
Requests == {1, 2}

\* the requests that arrive while another is being served: those above, and
\* a JSON body that names a path inside the upload folder
InflightRequests ==
    GenerateRequests
        \cup {[kind |-> "json", name |-> UploadPath(<<"doc", ".", "PDF">>)]}

\* the backends while requests are served at once
InflightEnvs ==
    {e \in WfEnvs :
        /\ e.docling_available /\ e.convert = "ok" /\ e.chunks = <<>>
        /\ e.analyze_reply = <<"{role:step,summary:S}">>
        /\ e.structure_reply = <<"[{title:Introduction},{title:Conclusion}]">>
        /\ e.refine_llm = "text" /\ e.refine_text = <<>>}

\* lines 129-138 of generate: the response made from what run_workflow did
GenerateResponse(w) ==
    IF w.outcome = "raised"
    THEN IF GenerateCatches(w.exc)
         THEN Returned(HttpResponse("500", [error |-> w.exc]))
         ELSE Raised(w.exc)
    ELSE Returned(HttpResponse("200", [outline |-> w.value.outline,
                                       markdown |-> w.value.markdown]))

\* ------------------------------------------------------------------ actions
\* Each action is one call a caller makes, from the idle state; Return is the
\* caller taking the result.
DoParse ==
    /\ op = "idle"
    /\ \E raw_doc \in ParserInputs, env \in ParserEnvs :
        /\ op' = "parse"
        /\ arg' = [raw_doc |-> raw_doc, env |-> env]
        /\ res' = ParserRun(raw_doc, env)
    /\ UNCHANGED <<temp_files_to_delete, tmp_files, uploads, inflight, run>>

DoRefine ==
    /\ op = "idle"
    /\ \E draft_doc \in RefinerInputs, env \in RefinerEnvs :
        /\ op' = "refine"
        /\ arg' = [draft_doc |-> draft_doc, env |-> env]
        /\ res' = RefinerRun(draft_doc, env)
    /\ UNCHANGED <<temp_files_to_delete, tmp_files, uploads, inflight, run>>

DoAnalyze ==
    /\ op = "idle"
    /\ \E blocks \in AnalyzerInputs :
        \E env \in AnalyzerEnvs(Len(blocks)) :
            /\ op' = "analyze"
            /\ arg' = [blocks |-> blocks, env |-> env,
                       blocks_after |-> AnalyzerBlocksAfter(blocks, env)]
            /\ res' = AnalyzerRun(blocks, env)
    /\ UNCHANGED <<temp_files_to_delete, tmp_files, uploads, inflight, run>>

\* ContentAnalyzerAgent.run on one block of any kind, or on a mixed pair,
\* the text model answering in any of its ways
DoAnalyzeCase ==
    /\ op = "idle"
    /\ \E blocks \in AnalyzerCaseInputs :
        \E env \in AnalyzerCaseEnvs(Len(blocks)) :
            /\ op' = "analyze"
            /\ arg' = [blocks |-> blocks, env |-> env,
                       blocks_after |-> AnalyzerBlocksAfter(blocks, env)]
            /\ res' = AnalyzerRun(blocks, env)
    /\ UNCHANGED <<temp_files_to_delete, tmp_files, uploads, inflight, run>>

DoStructure ==
    /\ op = "idle"
    /\ \E insights \in StructurerInputs, reply \in StructureReplies :
        /\ op' = "structure"
        /\ arg' = [insights |-> insights, reply |-> reply]
        /\ res' = StructurerRun(insights, reply)
    /\ UNCHANGED <<temp_files_to_delete, tmp_files, uploads, inflight, run>>

DoDraft ==
    /\ op = "idle"
    /\ \E outline \in DrafterOutlines, insights \in StructurerInputs,
          reply \in DraftReplies :
        /\ op' = "draft"
        /\ arg' = [outline |-> outline, insights |-> insights, reply |-> reply]
        /\ res' = DrafterRun(outline, insights, reply)
    /\ UNCHANGED <<temp_files_to_delete, tmp_files, uploads, inflight, run>>

DoWorkflow ==
    /\ op = "idle"
    /\ \E path \in WfSources, env \in WfEnvs :
        /\ op' = "workflow"
        /\ arg' = [path |-> path, env |-> env]
        /\ res' = RunWorkflow(path, ExistingFiles, env)
    /\ UNCHANGED <<temp_files_to_delete, tmp_files, uploads, inflight, run>>

DoGenerate ==
    /\ op = "idle"
    /\ \E req \in GenerateRequests, env \in WfEnvs :
        /\ op' = "generate"
        /\ arg' = [req |-> req, env |-> env]
        /\ res' = Generate(req, env)
        /\ uploads' = IF GenerateSaves(req)
                      THEN MergeDict(uploads,
                                     [p \in {UploadPath(req.name)} |-> 0])
                      ELSE uploads
    /\ UNCHANGED <<temp_files_to_delete, tmp_files, inflight, run>>

\* SourceRetrieverAgent().run(source)
DoRetrieve ==
    /\ op = "idle"
    /\ \E source \in RetrieverSources, tf_name \in TempNames \ tmp_files :
        \E env \in RetrieverEnvs(source) :
            LET r == RetrieverRun(source, tf_name, env, RetrieverLocalFiles)
            IN  /\ op' = "retrieve"
                /\ arg' = [source |-> source, env |-> env,
                           get_attempts |-> GetAttempts(source, env)]
                /\ res' = r
                /\ tmp_files' = IF r.created_temp_file = None THEN tmp_files
                                ELSE tmp_files \cup {r.created_temp_file}
                /\ temp_files_to_delete' =
                      IF r.registered
                      THEN temp_files_to_delete \cup {r.created_temp_file}
                      ELSE temp_files_to_delete
    /\ UNCHANGED <<uploads, inflight, run>>

\* cleanup_temp_files(), at exit or called directly
DoCleanup ==
    /\ op = "idle"
    /\ LET c == CleanupTempFiles(tmp_files, temp_files_to_delete)
       IN  /\ op' = "cleanup"
           /\ arg' = [files |-> tmp_files, registry |-> temp_files_to_delete]
           /\ res' = [outcome |-> c.outcome]
           /\ tmp_files' = c.files
           /\ temp_files_to_delete' = c.registry
    /\ UNCHANGED <<uploads, inflight, run>>

\* a temporary file is removed from outside the program (the case the
\* except OSError clause of cleanup_temp_files is there for)
TempFileRemovedOutside ==
    /\ op = "idle"
    /\ \E f \in tmp_files : tmp_files' = tmp_files \ {f}
    /\ UNCHANGED <<op, arg, res, temp_files_to_delete, uploads, inflight, run>>

\* generate(), lines 107-126, for a request that arrives: the source is
\* determined and an upload is saved into the upload folder
AcceptRequest ==
    /\ \E i \in Requests, req \in InflightRequests, env \in InflightEnvs :
        /\ inflight[i].pc = "none"
        /\ IF req.kind = "none"
           THEN /\ inflight' = [inflight EXCEPT ![i] =
                      [pc |-> "done", req |-> req, env |-> env,
                       resp |-> Returned(HttpResponse("400",
                                    [error |-> "No source provided"]))]]
                /\ UNCHANGED uploads
           ELSE IF req.kind = "file" /\ ~GenerateSaves(req)
           THEN /\ inflight' = [inflight EXCEPT ![i] =
                      [pc |-> "done", req |-> req, env |-> env,
                       resp |-> Returned(HttpResponse("400",
                                    [error |-> "Unsupported or empty file"]))]]
                /\ UNCHANGED uploads
           ELSE /\ inflight' = [inflight EXCEPT ![i] =
                      [pc |-> "running", req |-> req, env |-> env,
                       src |-> GenerateSource(req)]]
                /\ uploads' = IF GenerateSaves(req)
                              THEN MergeDict(uploads,
                                       [p \in {UploadPath(req.name)} |-> i])
                              ELSE uploads
    /\ UNCHANGED <<op, arg, res, temp_files_to_delete, tmp_files, run>>

\* generate(), lines 129-138, for a request whose source is determined:
\* run_workflow looks at the disk as it is now; file_owner is the request
\* whose upload lies at the path it is given (0: none)
RunRequest ==
    /\ \E i \in Requests :
        /\ inflight[i].pc = "running"
        /\ LET r == inflight[i]
               w == RunWorkflow(r.src, ExistingFiles \cup DOMAIN uploads, r.env)
           IN  inflight' = [inflight EXCEPT ![i] =
                   [pc |-> "done", req |-> r.req, env |-> r.env,
                    resp |-> GenerateResponse(w),
                    file_owner |-> DictGet(uploads, r.src, 0)]]
    /\ UNCHANGED <<op, arg, res, temp_files_to_delete, tmp_files, uploads, run>>

\* agent.run(agent.run(draft_doc)): the refiner called on its own result,
\* the backend being the same for both calls
DoRefineTwice ==
    /\ op = "idle"
    /\ \E draft_doc \in {d \in RefinerInputs : d.t = "Document"},
          backend \in StubBackends :
        LET first == RefineWith(backend, draft_doc)
        IN  /\ op' = "refine_twice"
            /\ arg' = [draft_doc |-> draft_doc, backend |-> backend]
            /\ res' = [first |-> first,
                       second |-> RefineWith(backend, first.value)]
    /\ UNCHANGED <<temp_files_to_delete, tmp_files, uploads, inflight, run>>

Return ==
    /\ op # "idle"
    /\ op' = "idle"
    /\ arg' = None
    /\ res' = None
    /\ UNCHANGED <<temp_files_to_delete, tmp_files, uploads, inflight, run>>

Init ==
    /\ op = "idle"
    /\ arg = None
    /\ res = None
    /\ temp_files_to_delete = {}
    /\ tmp_files = {}
    /\ uploads = EmptyDict
    /\ inflight = [i \in Requests |-> [pc |-> "none"]]
    /\ run = [pc |-> "none"]

Next ==
    \/ DoParse
    \/ DoRefine
    \/ DoAnalyze
    \/ DoStructure
    \/ DoDraft
    \/ DoWorkflow
    \/ DoGenerate
    \/ Return

Spec == Init /\ [][Next]_vars

\* the retriever and the cleanup of its temporary files
NextRetriever ==
    \/ DoRetrieve
    \/ DoCleanup
    \/ TempFileRemovedOutside
    \/ Return

SpecRetriever == Init /\ [][NextRetriever]_vars

\* the analyzer on single blocks and mixed pairs
NextAnalyzer ==
    \/ DoAnalyzeCase
    \/ Return

SpecAnalyzer == Init /\ [][NextAnalyzer]_vars

\* the refiner applied to its own result
NextRefiner ==
    \/ DoRefineTwice
    \/ Return

SpecRefiner == Init /\ [][NextRefiner]_vars

\* POST /generate requests served at once
NextRequests ==
    \/ AcceptRequest
    \/ RunRequest

SpecRequests == Init /\ [][NextRequests]_vars

\* one request followed through run_workflow, stage call by stage call
\* src/app.py, generate; src/src/workflows.py, run_workflow

\* the requests whose source generate determines (lines 114-126)
RunRequests == {req \in InflightRequests : req.kind = "json" \/ GenerateSaves(req)}

\* the stage whose backend or library call never returns, if any
RunHangs == {Stages[i] : i \in 1..Len(Stages)} \cup {"none"}

\* generate(), lines 107-130: the source is determined, an upload is saved,
\* and asyncio.run(run_workflow(src)) is entered; neither function takes a
\* cancellation signal or a timeout
StartRun ==
    /\ run.pc = "none"
    /\ \E req \in RunRequests, env \in InflightEnvs, hangs \in RunHangs :
        /\ run' = [pc |-> "running", req |-> req, env |-> env,
                   hangs |-> hangs, src |-> GenerateSource(req),
                   done_stages |-> 0, cancel |-> FALSE]
        /\ uploads' = IF GenerateSaves(req)
                      THEN MergeDict(uploads,
                                     [p \in {UploadPath(req.name)} |-> 0])
                      ELSE uploads
    /\ UNCHANGED <<op, arg, res, temp_files_to_delete, tmp_files, inflight>>

\* the caller gives up while generate is inside asyncio.run: the client
\* disconnects or its timeout fires; nothing in generate or run_workflow
\* reads the signal
CallerCancels ==
    /\ run.pc = "running"
    /\ ~run.cancel
    /\ run' = [run EXCEPT !.cancel = TRUE]
    /\ UNCHANGED <<op, arg, res, temp_files_to_delete, tmp_files, uploads,
                   inflight>>

\* run_workflow up to its next stage boundary: the source check and the
\* instantiation of the agents come before the first stage call; a stage
\* call whose backend never returns is a step that never happens; after the
\* last stage call it entered, run_workflow returns or raises
WorkflowStep ==
    /\ run.pc = "running"
    /\ LET w == RunWorkflow(run.src, ExistingFiles \cup DOMAIN uploads, run.env)
       IN  IF run.done_stages = Len(w.trace)
           THEN run' = [run EXCEPT !.pc = "finished"]
           ELSE /\ run.hangs # w.trace[run.done_stages + 1]
                /\ run' = [run EXCEPT !.done_stages = run.done_stages + 1]
    /\ UNCHANGED <<op, arg, res, temp_files_to_delete, tmp_files, uploads,
                   inflight>>

\* generate(), lines 131-138: the response made from what run_workflow did
Respond ==
    /\ run.pc = "finished"
    /\ LET w == RunWorkflow(run.src, ExistingFiles \cup DOMAIN uploads, run.env)
       IN  run' = [pc |-> "responded", req |-> run.req, env |-> run.env,
                   hangs |-> run.hangs, src |-> run.src,
                   done_stages |-> run.done_stages, cancel |-> run.cancel,
                   resp |-> GenerateResponse(w)]
    /\ UNCHANGED <<op, arg, res, temp_files_to_delete, tmp_files, uploads,
                   inflight>>

NextRun ==
    \/ StartRun
    \/ CallerCancels
    \/ WorkflowStep
    \/ Respond

SpecRun == Init /\ [][NextRun]_vars

\* ------------------------------------------------------------------- claims

\* C1: for every input the parser's run returns normally and the list it
\* returns holds at least one block.
C1_ParserNeverRaises ==
    op = "parse" => res.outcome = "returned" /\ Len(res.value) >= 1

\* C2: for every non-empty block list the analyzer's run returns a list of
\* the same length whose i-th insight was derived from the i-th block (it
\* carries that block's metadata and a snippet of that block's content),
\* whatever the backends answer and however they fail.
C2_OneInsightPerBlock ==
    (op = "analyze" /\ arg.blocks # <<>>) =>
        /\ res.outcome = "returned"
        /\ Len(res.value) = Len(arg.blocks)
        /\ \A i \in 1..Len(arg.blocks) :
            /\ res.value[i].metadata.chunk_id = arg.blocks[i].metadata.chunk_id
            /\ res.value[i].metadata.original_content_snippet
                  = Take(arg.blocks[i].page_content, OriginalSnippetLen)
            /\ \A k \in DOMAIN arg.blocks[i].metadata :
                  res.value[i].metadata[k] = arg.blocks[i].metadata[k]

\* C2 witness: a run over at least two blocks in which the text model raised
\* on one block and the vision model raised on another.
C2_Witness ==
    /\ op = "analyze"
    /\ Len(arg.blocks) >= 2
    /\ res.outcome = "returned"
    /\ \E i, j \in 1..Len(res.value) :
        /\ res.value[i].metadata.role = "analysis_error_llm"
        /\ res.value[j].metadata.role = "image_error"

\* C3 (as stated): every call of run_workflow returns a result to its caller;
\* no exception propagates out of the orchestrator.
C3_NothingPropagates ==
    op = "workflow" => res.outcome = "returned"

\* C3 (amended): an exception raised inside run_workflow propagates to its
\* caller (FileNotFoundError when the source is no existing file); the web
\* handler generate catches every exception of run_workflow and answers
\* with HTTP status 500 and a JSON body holding only an error text, so no
\* exception leaves generate; every answer of generate other than 200 is
\* such an error body.
C3_GenerateCatchesEverything ==
    /\ (op = "workflow" /\ arg.path \notin ExistingFiles) =>
            (res.outcome = "raised" /\ res.exc = "FileNotFoundError")
    /\ op = "generate" =>
        /\ res.outcome = "returned"
        /\ res.value.status \in {"200", "400", "500"}
        /\ res.value.status # "200" => DOMAIN res.value.body = {"error"}
        /\ LET w == RunWorkflow(GenerateSource(arg.req),
                                GenerateFiles(arg.req), arg.env)
           IN  (arg.req.kind = "json"
                \/ (arg.req.kind = "file" /\ AllowedFile(arg.req.name))) =>
                   (w.outcome = "raised" =>
                       res.value = HttpResponse("500", [error |-> w.exc]))

\* C3 witness: generate answered 500 for an upload whose pipeline run raised
\* an exception other than FileNotFoundError.
C3_Witness ==
    /\ op = "generate"
    /\ arg.req.kind = "file"
    /\ res.outcome = "returned"
    /\ res.value.status = "500"
    /\ res.value.body.error # "FileNotFoundError"

\* the stage trace t is an initial segment of the fixed stage order
IsStagePrefix(t) ==
    Len(t) <= Len(Stages) /\ \A i \in 1..Len(t) : t[i] = Stages[i]

C5_ExistingFileReachesDone ==
    (/\ op = "workflow"
     /\ arg.path \in ExistingFiles
     /\ arg.env.draft_reply # <<"<raises>">>
     /\ arg.env.refine_llm = "text") =>
        /\ res.outcome = "returned"
        /\ {"markdown", "outline", "insights", "blocks"}
              \subseteq DOMAIN res.value

\* C6: when the structuring stage yields an empty outline for a non-empty
\* insight list (the backend's outline reply is not parsable; the parser
\* always gives at least one block), the run is Failed: it returns an
\* error-tagged draft and neither the drafter nor the refiner was invoked.
C6_EmptyOutlineFails ==
    (/\ op = "workflow"
     /\ arg.path \in ExistingFiles
     /\ ParseOutline(arg.env.structure_reply) = <<>>) =>
        /\ res.outcome = "returned"
        /\ "status" \in DOMAIN res.value
        /\ res.value.status = "error"
        /\ \A i \in 1..Len(res.trace) : res.trace[i] \notin {"draft", "refine"}

\* the refiner was handed a non-empty draft Document and a real backend
RefinerCalledBackend ==
    /\ op = "refine"
    /\ arg.draft_doc.t = "Document"
    /\ arg.draft_doc.page_content # <<>>
    /\ ~arg.env.use_mocks

\* the backend answered the refiner with a text that is empty after trimming
RefinerReplyEmpty ==
    /\ RefinerCalledBackend
    /\ arg.env.llm = "text"
    /\ Strip(arg.env.text) = <<>>

\* C7 (as stated): when the backend's reply is empty after trimming, refine
\* returns the draft's content unchanged with status "unrefined".
C7_EmptyReplyStatusUnrefined ==
    RefinerReplyEmpty =>
        /\ res.outcome = "returned"
        /\ res.value.page_content = arg.draft_doc.page_content
        /\ res.value.metadata.status = "unrefined"

\* C7 (amended): when the backend's reply is empty after trimming, refine
\* returns a document whose content equals the draft's content exactly,
\* whose status is "refinement_empty_output" and whose role is
\* "tutorial_unrefined", the draft's other metadata being kept.
C7_EmptyReplyKeepsDraft ==
    RefinerReplyEmpty =>
        /\ res.outcome = "returned"
        /\ res.value.page_content = arg.draft_doc.page_content
        /\ res.value.metadata.status = "refinement_empty_output"
        /\ res.value.metadata.role = "tutorial_unrefined"
        /\ DOMAIN res.value.metadata
              = DOMAIN arg.draft_doc.metadata \cup {"status", "role"}

\* C7 witness: a whitespace-only reply to a draft that ends in a newline.
C7_Witness ==
    /\ RefinerReplyEmpty
    /\ arg.env.text # <<>>
    /\ arg.draft_doc.page_content = <<"body", "\n">>
    /\ res.outcome = "returned"

\* the backend call or the handling of its reply raised inside refine
RefinerBackendRaised ==
    /\ RefinerCalledBackend
    /\ arg.env.llm \in {"raises", "nonstring"}

\* C8 (as stated): when the backend call or the response handling raises,
\* refine returns a document with status "refinement_failed", an
\* error_message, and the draft's content unchanged.
C8_FailureKeepsDraft ==
    RefinerBackendRaised =>
        /\ res.outcome = "returned"
        /\ res.value.metadata.status = "refinement_failed"
        /\ "error_message" \in DOMAIN res.value.metadata
        /\ res.value.page_content = arg.draft_doc.page_content

\* C8 (amended): when the backend call or the response handling raises,
\* refine does not raise and returns a document with status "failed", role
\* "refinement_error" and an error_message holding the exception's text;
\* its content is a "# Refinement Error" Markdown block quoting that text,
\* in place of the draft's content.
C8_FailureReturnsErrorDocument ==
    RefinerBackendRaised =>
        /\ res.outcome = "returned"
        /\ res.value.metadata.status = "failed"
        /\ res.value.metadata.role = "refinement_error"
        /\ "error_message" \in DOMAIN res.value.metadata
        /\ res.value.metadata.error_message = RefinerTryError(arg.env)
        /\ Head(res.value.page_content) = "# Refinement Error"
        /\ Contains(res.value.page_content, RefinerTryError(arg.env))
        /\ \A k \in DOMAIN arg.draft_doc.metadata \ {"role"} :
              res.value.metadata[k] = arg.draft_doc.metadata[k]

\* C8 witness: get_text_content gave a non-string for a draft with metadata.
C8_Witness ==
    /\ RefinerBackendRaised
    /\ arg.env.llm = "nonstring"
    /\ arg.draft_doc.metadata # EmptyDict
    /\ res.outcome = "returned"

C10_ParserFallbackReachesDone ==
    /\ (/\ op = "parse"
        /\ arg.raw_doc.t = "Document"
        /\ arg.env.docling_available
        /\ arg.env.convert = "raises") =>
            /\ res.outcome = "returned"
            /\ Len(res.value) = 1
            /\ "chunk_error" \in DOMAIN res.value[1].metadata
    /\ (/\ op = "workflow"
        /\ arg.path \in ExistingFiles
        /\ arg.env.docling_available
        /\ arg.env.convert = "raises") =>
            /\ res.outcome = "returned"
            /\ "status" \in DOMAIN res.value.markdown.metadata
            /\ res.value.markdown.metadata.status \in {"draft", "unrefined"}

\* the parser was handed a Document and one of the three degraded cases
\* happened: no conversion library, conversion or chunking raised, no chunks
ParserDegraded ==
    /\ op = "parse"
    /\ arg.raw_doc.t = "Document"
    /\ \/ ~arg.env.docling_available
       \/ arg.env.convert # "ok"
       \/ arg.env.chunker_raises
       \/ arg.env.chunks = <<>>

\* C11: in each of the three degraded cases the parser returns exactly one
\* block whose text is the raw input and whose metadata holds chunk_error in
\* addition to the input's metadata; in the non-degraded case no returned
\* block carries chunk_error.
C11_FallbackIsOneMarkedBlock ==
    (op = "parse" /\ arg.raw_doc.t = "Document") =>
        /\ res.outcome = "returned"
        /\ ParserDegraded =>
            /\ Len(res.value) = 1
            /\ res.value[1].page_content = arg.raw_doc.page_content
            /\ "chunk_error" \in DOMAIN res.value[1].metadata
            /\ \A k \in DOMAIN arg.raw_doc.metadata :
                  res.value[1].metadata[k] = arg.raw_doc.metadata[k]
        /\ ~ParserDegraded =>
            /\ Len(res.value) = Len(arg.env.chunks)
            /\ \A i \in 1..Len(res.value) :
                  "chunk_error" \notin DOMAIN res.value[i].metadata

\* C11 witness: conversion and chunking went through and gave zero chunks,
\* for an input that carries metadata.
C11_Witness ==
    /\ ParserDegraded
    /\ arg.env.docling_available
    /\ arg.env.convert = "ok"
    /\ ~arg.env.chunker_raises
    /\ arg.raw_doc.metadata # EmptyDict
    /\ res.outcome = "returned"
    /\ res.value[1].metadata.chunk_error = "Chunking produced no chunks"

\* the roles the analyzer tags a failed block with
AnalyzerErrorRoles ==
    {"image_error", "analysis_error_llm", "analysis_error_json",
     "analysis_error_processing"}

\* handling block i of the analyzer's input failed: the vision backend raised
\* on an image block, or the text backend raised or answered with something
\* that is no JSON object
AnalyzerBlockFailed(i) ==
    IF IsImage(arg.blocks[i])
    THEN arg.env.vision_model = "raises"
    ELSE arg.env.replies[i] \in {<<"<raises>">>, <<"not json">>, <<"[]">>}

\* C12: the analyzer's run never raises: a block whose handling failed gets
\* an error-tagged insight, and every other block of the batch is still
\* analyzed (its insight carries no error tag).
C12_AnalyzerNeverRaises ==
    op = "analyze" =>
        /\ res.outcome = "returned"
        /\ Len(res.value) = Len(arg.blocks)
        /\ \A i \in 1..Len(arg.blocks) :
              AnalyzerBlockFailed(i)
                  <=> res.value[i].metadata.role \in AnalyzerErrorRoles

\* C12 witness: the reply to the first block was no JSON and the second
\* block was analyzed all the same.
C12_Witness ==
    /\ op = "analyze"
    /\ Len(arg.blocks) = 2
    /\ arg.env.replies[1] = <<"not json">>
    /\ res.outcome = "returned"
    /\ res.value[1].metadata.role = "analysis_error_json"
    /\ res.value[2].metadata.role = "step"

\* C13: invoked on an empty insight list, the structure builder returns an
\* empty outline and does not raise (whatever the backend would do).
C13_EmptyInsightsEmptyOutline ==
    (op = "structure" /\ arg.insights = <<>>) => res = Returned(<<>>)

\* C13 witness: an empty insight list while the backend would have raised.
C13_Witness ==
    /\ op = "structure"
    /\ arg.insights = <<>>
    /\ arg.reply = <<"<raises>">>
    /\ res.outcome = "returned"

\* the backend answered the structure builder with a JSON array whose
\* elements are outline nodes
ReplyIsOutlineArray ==
    arg.reply \in {<<"[]">>, <<"[{title:Introduction},{title:Conclusion}]">>}

\* C14: for a non-empty insight list, when the backend's response is not
\* parsable as a JSON array of outline nodes, the structure builder returns
\* an empty sequence and does not raise.
C14_UnparsableGivesEmptyOutline ==
    (/\ op = "structure"
     /\ arg.insights # <<>>
     /\ arg.reply # <<"<raises>">>
     /\ ~ReplyIsOutlineArray) =>
        res = Returned(<<>>)

\* the drafter was handed a Document with a non-blank outline
DrafterCalledBackend ==
    /\ op = "draft"
    /\ arg.outline.t = "Document"
    /\ Strip(arg.outline.page_content) # <<>>

C16_DraftFailureIsFatal ==
    (/\ op = "workflow"
     /\ arg.path \in ExistingFiles
     /\ arg.env.draft_reply = <<"<raises>">>) =>
        /\ res.outcome = "returned"
        /\ "status" \in DOMAIN res.value
        /\ res.value.status = "error"
        /\ \E i \in 1..Len(res.trace) : res.trace[i] = "draft"
        /\ \A i \in 1..Len(res.trace) : res.trace[i] # "refine"

\* the retrieval failed in the sense of the claim: the source is neither a
\* reachable URL nor an existing file, or no content could be read from it
RetrievalFailed ==
    IF IsUrl(arg.source)
    THEN \/ arg.env.http \in {"request_error", "unknown_encoding"}
         \/ arg.env.transient > RetryTotal
    ELSE \/ arg.source \notin RetrieverLocalFiles
         \/ /\ ~EndsWith(LowerStr(arg.source), ".pdf")
            /\ arg.env.read \in {"binary_unreadable", "unreadable"}

\* the result of the retriever is a document with content and a known format
RetrievedDocument ==
    /\ res.outcome = "returned"
    /\ res.value.page_content # None
    /\ res.value.metadata.format \in {"pdf", "html", "unknown"}
    /\ res.value.metadata.source = arg.source

\* C17 (as stated): the retriever's run fails with RetrievalError whenever
\* the source is neither a reachable URL nor an existing file or no content
\* could be read; in every other case it returns a document whose content is
\* not None and whose format is one of pdf, html, unknown.
C17_FailsWithRetrievalError ==
    op = "retrieve" =>
        IF RetrievalFailed
        THEN res.outcome = "raised" /\ res.exc = "RetrievalError"
        ELSE RetrievedDocument

\* C17 (amended): the retriever's run raises ValueError when the request
\* for a URL fails, when the source is neither a URL nor an existing file,
\* and when a local file that is no .pdf cannot be read; any other exception
\* during a URL fetch leaves run as it is (LookupError for an unknown
\* encoding, OSError when the temporary file cannot be created or written);
\* in every other case run returns a document whose content is not None and
\* whose format is one of pdf, html, unknown.
C17_FailsWithValueError ==
    op = "retrieve" =>
        LET tmp_failed == /\ IsUrl(arg.source)
                          /\ arg.env.transient <= RetryTotal
                          /\ arg.env.http \in {"pdf_ctype", "pdf_magic"}
                          /\ arg.env.tmp_io # "ok"
            bad_encoding == /\ IsUrl(arg.source)
                            /\ arg.env.transient <= RetryTotal
                            /\ arg.env.http = "unknown_encoding"
        IN  /\ (RetrievalFailed /\ ~bad_encoding) =>
                  (res.outcome = "raised" /\ res.exc = "ValueError")
            /\ bad_encoding =>
                  (res.outcome = "raised" /\ res.exc = "LookupError")
            /\ tmp_failed =>
                  (res.outcome = "raised" /\ res.exc = "OSError")
            /\ (~RetrievalFailed /\ ~tmp_failed) => RetrievedDocument

\* C17 witness: the request for a URL failed.
C17_Witness ==
    /\ op = "retrieve"
    /\ IsUrl(arg.source)
    /\ arg.env.http = "request_error"
    /\ res.outcome = "raised"

\* C18: whenever run returns or raises, each temporary file it created is a
\* member of the process-wide registry.
C18_CreatedTempFileIsRegistered ==
    (op = "retrieve" /\ res.created_temp_file # None) =>
        res.created_temp_file \in temp_files_to_delete

\* C19: cleanup of the temporary files is idempotent: cleanup_temp_files
\* raises no error, also when the registry names a file already removed;
\* running it again after it has run deletes nothing further and leaves
\* filesystem and registry as the first run left them; and the registry is
\* only ever changed by the retriever adding one path or by the cleanup
\* removing paths.
C19_CleanupIsIdempotent ==
    /\ [](LET c1 == CleanupTempFiles(tmp_files, temp_files_to_delete)
              c2 == CleanupTempFiles(c1.files, c1.registry)
          IN  /\ c1.outcome = "returned"
              /\ c2 = c1
              /\ op = "cleanup" =>
                    /\ res.outcome = "returned"
                    /\ c1.files = tmp_files
                    /\ c1.registry = temp_files_to_delete
                    /\ tmp_files = arg.files \ arg.registry)
    /\ [][temp_files_to_delete' # temp_files_to_delete =>
            \/ /\ op' = "retrieve"
               /\ \E f \in TempNames \ temp_files_to_delete :
                     temp_files_to_delete' = temp_files_to_delete \cup {f}
            \/ /\ op' = "cleanup"
               /\ temp_files_to_delete' \subseteq temp_files_to_delete]_vars

\* C19 witness: a cleanup ran on a registry that named a file already
\* removed and a file still on disk.
C19_Witness ==
    /\ op = "cleanup"
    /\ arg.registry \ arg.files # {}
    /\ arg.registry \cap arg.files # {}
    /\ res.outcome = "returned"

\* the response a request gets when it is served alone, the upload folder
\* holding nothing but its own upload
AloneResponse(req, env) ==
    IF req.kind = "none"
    THEN Returned(HttpResponse("400", [error |-> "No source provided"]))
    ELSE IF req.kind = "file" /\ ~GenerateSaves(req)
    THEN Returned(HttpResponse("400", [error |-> "Unsupported or empty file"]))
    ELSE GenerateResponse(
             RunWorkflow(GenerateSource(req),
                         IF req.kind = "file"
                         THEN ExistingFiles \cup {UploadPath(req.name)}
                         ELSE ExistingFiles,
                         env))

\* C20: requests served at once are independent: under every interleaving
\* each request's response equals the response it gets when served alone on
\* the same input with the same backend answers, and the pipeline run of an
\* upload is given the file that this request saved, never another's.
C20_ConcurrentRequestsIndependent ==
    \A i \in Requests :
        inflight[i].pc = "done" =>
            /\ inflight[i].resp = AloneResponse(inflight[i].req, inflight[i].env)
            /\ GenerateSaves(inflight[i].req) => inflight[i].file_owner = i

\* the values by which a response reports that the run was cancelled or
\* timed out
CancelledStatuses == {"cancelled", "timeout"}

\* C21: a cancellation or timeout signal of the caller is honored at every
\* stage boundary, and a model call that never returns still leads to a
\* cancelled/timeout report instead of blocking the caller forever: every
\* request whose caller signalled while run_workflow had not yet passed its
\* last stage boundary is answered with a cancelled or timeout status.
C21_CancellationIsHonored ==
    (run.pc = "responded" /\ run.cancel) =>
        /\ run.resp.outcome = "returned"
        /\ \/ run.resp.value.status \in CancelledStatuses
           \/ /\ "error" \in DOMAIN run.resp.value.body
              /\ run.resp.value.body.error \in CancelledStatuses

\* C22: refinement is idempotent at a fixed point of a deterministic
\* backend: when refine(draft) returned D and the backend's output for D's
\* content is that same content, refine(D) returns a document whose content
\* equals D's content.
C22_RefineIdempotentAtFixedPoint ==
    (/\ op = "refine_twice"
     /\ res.first.outcome = "returned"
     /\ BackendOutput(arg.backend, res.first.value.page_content)
           = res.first.value.page_content) =>
        /\ res.second.outcome = "returned"
        /\ res.second.value.page_content = res.first.value.page_content

\* C22 witness: the stub improved the draft to a text that it leaves as it
\* is, and the second call was made on that text.
C22_Witness ==
    /\ op = "refine_twice"
    /\ arg.backend.kind = "stub"
    /\ res.first.outcome = "returned"
    /\ res.first.value.metadata.status = "refined"
    /\ res.first.value.page_content # arg.draft_doc.page_content
    /\ BackendOutput(arg.backend, res.first.value.page_content)
          = res.first.value.page_content
    /\ res.second.outcome = "returned"
    /\ res.second.value.metadata.status = "refined"

\* the status values the specification's enumeration names
SpecStatuses == {"draft", "refined", "refinement_failed", "unrefined", "error"}

\* the status values the refiner writes
RefinerStatuses ==
    {"refined", "refined_mock", "refinement_empty_output", "failed"}

\* C23 (as stated): every draft the drafter or the refiner produces carries
\* a status, and that status is one of draft, refined, refinement_failed,
\* unrefined, error.
C23_StatusInSpecEnum ==
    (op \in {"draft", "refine"} /\ res.outcome = "returned") =>
        /\ "status" \in DOMAIN res.value.metadata
        /\ res.value.metadata.status \in SpecStatuses

\* C23 (amended): every document the refiner returns carries a status, which
\* is one of refined, refined_mock, refinement_empty_output, failed (refined
\* or refined_mock exactly when its role is tutorial_refined); the documents
\* the drafter returns carry no status at all, only the role tutorial or
\* tutorial_error.
C23_StatusInRefinerValues ==
    /\ (op = "refine" /\ res.outcome = "returned") =>
        /\ "status" \in DOMAIN res.value.metadata
        /\ res.value.metadata.status \in RefinerStatuses
        /\ res.value.metadata.status \in {"refined", "refined_mock"}
              <=> res.value.metadata.role = "tutorial_refined"
        /\ res.value.metadata.status = "refined_mock" => arg.env.use_mocks
    /\ (op = "draft" /\ res.outcome = "returned") =>
        /\ "status" \notin DOMAIN res.value.metadata
        /\ res.value.metadata.role \in {"tutorial", "tutorial_error"}

\* C23 witness: the refiner, running on the mock backend, returned a document
\* whose status is refined_mock.
C23_Witness ==
    /\ op = "refine"
    /\ arg.env.use_mocks
    /\ res.outcome = "returned"
    /\ res.value.metadata.status = "refined_mock"

SpecRoles ==
    {"title", "introduction", "prerequisite", "step", "code_example",
     "concept", "example", "conclusion", "image_description", "other",
     "error"}

\* the role names that start with "image_"
ImageUnderscoreRoles == {"image_description", "image_error"}

\* the block is an image by the specification's rule: its metadata declares
\* an image type, or its text ends in a recognized image extension
DeclaredOrNamedImage(block) ==
    \/ Upper(DictGet(block.metadata, "docling_type", "")) = "IMAGE"
    \/ \E ext \in ImageExtensions : EndsWith(LowerStr(block.page_content), ext)

\* the analyzer was given one image block and one text block
MixedPair ==
    /\ op = "analyze"
    /\ Len(arg.blocks) = 2
    /\ DeclaredOrNamedImage(arg.blocks[1]) # DeclaredOrNamedImage(arg.blocks[2])

\* C25 (as stated): given one image block and one text block, the analyzer
\* returns two insights in input order; the image insight's role starts with
\* "image_", with or without a vision model and whether or not it fails; the
\* text insight's role is a member of the fixed role enumeration, whatever
\* role the model returned.
C25_MixedPairRolesInEnum ==
    MixedPair =>
        /\ res.outcome = "returned"
        /\ Len(res.value) = 2
        /\ \A i \in 1..2 :
            /\ res.value[i].metadata.chunk_id = i - 1
            /\ res.value[i].metadata.original_content_snippet
                  = Take(arg.blocks[i].page_content, OriginalSnippetLen)
            /\ IF DeclaredOrNamedImage(arg.blocks[i])
               THEN res.value[i].metadata.role \in ImageUnderscoreRoles
               ELSE res.value[i].metadata.role \in SpecRoles

\* C25 (amended): given one image block (a path to an image file) and one
\* text block, the analyzer returns two insights in input order; the image
\* insight's role is image when there is no vision model, image_description
\* when the vision model answered and image_error when it raised; the text
\* insight's role is the role of the model's JSON object as the model gave
\* it, inside the enumeration or not (other when the object names no role),
\* and analysis_error_llm, analysis_error_json or analysis_error_processing
\* when the call or the parsing of the reply failed.
C25_MixedPairRolesAsGiven ==
    MixedPair =>
        /\ res.outcome = "returned"
        /\ Len(res.value) = 2
        /\ \A i \in 1..2 :
            /\ res.value[i].metadata.chunk_id = i - 1
            /\ res.value[i].metadata.original_content_snippet
                  = Take(arg.blocks[i].page_content, OriginalSnippetLen)
            /\ LET role  == res.value[i].metadata.role
                   reply == arg.env.replies[i]
               IN  IF DeclaredOrNamedImage(arg.blocks[i])
                   THEN role = CASE arg.env.vision_model = "none" -> "image"
                                 [] arg.env.vision_model = "ok" ->
                                        "image_description"
                                 [] OTHER -> "image_error"
                   ELSE /\ reply = <<"<raises>">> => role = "analysis_error_llm"
                        /\ (Len(reply) = 1 /\ reply[1] \in DOMAIN JsonObjects) =>
                              role = DictGet(JsonObjects[reply[1]], "role",
                                             "other")
                        /\ role \in {"step", "paragraph", "other",
                                     "analysis_error_llm",
                                     "analysis_error_json",
                                     "analysis_error_processing"}

\* C25 witness: no vision model, the image block first, and a model that
\* gave the text block a role outside the enumeration.
C25_Witness ==
    /\ MixedPair
    /\ DeclaredOrNamedImage(arg.blocks[1])
    /\ arg.env.vision_model = "none"
    /\ res.outcome = "returned"
    /\ res.value[1].metadata.role = "image"
    /\ res.value[2].metadata.role = "paragraph"

\* the roles the image branch writes
ImageRoles == {"image", "image_description", "image_error"}

\* block i of the analyzer's input took the image path
TookImagePath(i) == res.value[i].metadata.role \in ImageRoles

\* C26 (as stated): the analyzer treats a block as an image exactly when its
\* metadata declares an image type or its text ends in a recognized image
\* extension; every such block takes the image path, every other block the
\* text path.
C26_ImageIffDeclaredOrExtension ==
    op = "analyze" =>
        \A i \in 1..Len(arg.blocks) :
            TookImagePath(i) <=> DeclaredOrNamedImage(arg.blocks[i])

\* C26 (amended): the analyzer treats a block as an image exactly when its
\* metadata's docling_type is IMAGE (in any case), or its text ends in a
\* recognized image extension (in any case) and also looks like a path or
\* URL: it contains "/" or "\" or starts with "http". A bare file name with
\* an image extension takes the text path.
C26_ImageIffDeclaredOrPathWithExtension ==
    op = "analyze" =>
        \A i \in 1..Len(arg.blocks) :
            LET b == arg.blocks[i]
                declared == Upper(DictGet(b.metadata, "docling_type", ""))
                               = "IMAGE"
                named == \E ext \in ImageExtensions :
                            EndsWith(LowerStr(b.page_content), ext)
                pathlike == \/ Contains(b.page_content, "/")
                            \/ Contains(b.page_content, "\\")
                            \/ StartsWith(b.page_content, "http")
            IN  /\ TookImagePath(i) <=> (declared \/ (named /\ pathlike))
                /\ ~TookImagePath(i) =>
                      res.value[i].metadata.role
                          \in {"step", "paragraph", "other",
                               "analysis_error_llm", "analysis_error_json",
                               "analysis_error_processing"}

\* C26 witness: a bare file name with an image extension was analyzed as
\* text, the text model being asked about it.
C26_Witness ==
    /\ op = "analyze"
    /\ Len(arg.blocks) = 1
    /\ arg.blocks[1].page_content = <<"img", ".png">>
    /\ res.outcome = "returned"
    /\ res.value[1].metadata.role = "step"

\* the replies that hold the JSON object {role: step, summary: S} wrapped in
\* code fences (with or without language tag, on several lines or on one)
\* and/or after extra text
WrappedObjectReplies ==
    { <<"<fence>", "json", "\n", "{role:step,summary:S}", "\n", "<fence>">>,
      <<"<fence>", "\n", "{role:step,summary:S}", "\n", "<fence>">>,
      <<"<fence>", "{role:step,summary:S}", "<fence>">>,
      <<"<fence>", "json", " ", "{role:step,summary:S}", "<fence>">>,
      <<"Here is the JSON:", " ", "{role:step,summary:S}">>,
      <<"Sure:", "\n", "<fence>", "json", "\n", "{role:step,summary:S}",
        "\n", "<fence>">> }

\* C27: for a text block whose model response is a valid JSON object wrapped
\* in code fences (with or without a language tag, on one line or several)
\* and/or preceded by extra text, the analyzer recovers the object: the
\* insight carries that object's role and summary.
C27_WrappedObjectIsRecovered ==
    op = "analyze" =>
        \A i \in 1..Len(arg.blocks) :
            (/\ ~DeclaredOrNamedImage(arg.blocks[i])
             /\ arg.env.replies[i] \in WrappedObjectReplies) =>
                /\ res.value[i].metadata.role = "step"
                /\ res.value[i].page_content = <<"S">>

\* the replies that are no JSON, fenced or not
UnparsableReplies == { <<"not json">>, LongReply }

\* C28 (as stated): for a text block whose model response cannot be parsed
\* as JSON, the insight has role "analysis_error" and a summary that is the
\* raw response cut to about 120 characters, never the whole response.
C28_UnparsableTruncated ==
    op = "analyze" =>
        \A i \in 1..Len(arg.blocks) :
            (/\ ~DeclaredOrNamedImage(arg.blocks[i])
             /\ arg.env.replies[i] \in UnparsableReplies) =>
                /\ res.value[i].metadata.role = "analysis_error"
                /\ Len(res.value[i].page_content) <= 120 + 3
                /\ Take(arg.env.replies[i], 120)
                      = Take(res.value[i].page_content, 120)

\* C28 (amended): for a text block whose model response, after trimming and
\* after the removal of a leading code fence, cannot be parsed as JSON, the
\* insight has role "analysis_error_json" and its summary is that response
\* in full, however long.
C28_UnparsableKeptWhole ==
    op = "analyze" =>
        \A i \in 1..Len(arg.blocks) :
            LET reply == arg.env.replies[i]
            IN  (/\ ~TookImagePath(i)
                 /\ reply # <<"<raises>">>
                 /\ JsonKind(Unfence(Strip(reply))) = "error") =>
                    /\ res.value[i].metadata.role = "analysis_error_json"
                    /\ res.value[i].page_content = Unfence(Strip(reply))
                    /\ reply \in UnparsableReplies =>
                          res.value[i].page_content = reply

\* C28 witness: the model answered a text block with a text of more than
\* 120 characters that is no JSON.
C28_Witness ==
    /\ op = "analyze"
    /\ Len(arg.blocks) = 1
    /\ ~DeclaredOrNamedImage(arg.blocks[1])
    /\ arg.env.replies[1] = LongReply
    /\ res.outcome = "returned"
    /\ Len(res.value[1].page_content) > 120

\* C29: indices keep the origin order through the pipeline: a successful
\* parse of n chunks returns n blocks whose chunk_id is 0..n-1 in list
\* order, without gaps or duplicates, block i being made of chunk i; and the
\* insight the analyzer produces at position i carries the chunk_id of the
\* block at position i.
C29_IndicesFollowOriginOrder ==
    /\ (op = "parse" /\ arg.raw_doc.t = "Document" /\ ~ParserDegraded) =>
        /\ res.outcome = "returned"
        /\ Len(res.value) = Len(arg.env.chunks)
        /\ \A i \in 1..Len(res.value) :
            /\ res.value[i].metadata.chunk_id = i - 1
            /\ res.value[i].page_content = ChunkText(arg.env.chunks[i])
        /\ {res.value[i].metadata.chunk_id : i \in 1..Len(res.value)}
              = 0..(Len(arg.env.chunks) - 1)
    /\ op = "analyze" =>
        /\ Len(res.value) = Len(arg.blocks)
        /\ \A i \in 1..Len(arg.blocks) :
              res.value[i].metadata.chunk_id
                  = arg.blocks[i].metadata.chunk_id

\* C29 witness: a parse of as many chunks as the bound allows, no two alike,
\* went through.
C29_Witness ==
    /\ op = "parse"
    /\ arg.raw_doc.t = "Document"
    /\ ~ParserDegraded
    /\ Len(arg.env.chunks) = MaxChunks
    /\ arg.env.chunks[1] # arg.env.chunks[MaxChunks]
    /\ res.outcome = "returned"
    /\ res.value[MaxChunks].metadata.chunk_id = MaxChunks - 1

\* C30 (as stated): for a URL that keeps answering with a transient status
\* the retriever issues at most 3 GET attempts in total before it gives up
\* with a retrieval failure; a non-transient error status is not retried.
C30_AtMostThreeAttempts ==
    (op = "retrieve" /\ IsUrl(arg.source)) =>
        /\ arg.get_attempts <= 3
        /\ arg.env.transient >= 3 => res.outcome = "raised"
        /\ (arg.env.transient = 0 /\ arg.env.http = "request_error") =>
              arg.get_attempts = 1

\* C30 (amended): for a URL that keeps answering with a transient status the
\* retriever issues at most 4 GET attempts in total, the first and 3
\* retries, before it gives up by raising ValueError; a source that answers
\* some attempt other than with a transient status is not asked again after
\* it (a non-transient error status is not retried).
C30_AtMostThreeRetries ==
    (op = "retrieve" /\ IsUrl(arg.source)) =>
        /\ arg.get_attempts <= 4
        /\ arg.env.transient >= 4 =>
            /\ arg.get_attempts = 4
            /\ res.outcome = "raised"
            /\ res.exc = "ValueError"
        /\ arg.env.transient <= 3 =>
            /\ arg.get_attempts = arg.env.transient + 1
            /\ arg.env.http = "request_error" =>
                  (res.outcome = "raised" /\ res.exc = "ValueError")
            /\ (arg.env.http = "html") => res.outcome = "returned"

\* C30 witness: every attempt was answered with a transient status and the
\* retriever gave up after the fourth.
C30_Witness ==
    /\ op = "retrieve"
    /\ IsUrl(arg.source)
    /\ arg.env.transient = MaxTransient
    /\ arg.get_attempts = 4
    /\ res.outcome = "raised"

====
